---- MODULE Spec2Model ----
(***************************************************************************)
(* A model of the two transfer detectors of stylus-analyzer:               *)
(*   UncheckedTransferDetector  (detectors/unchecked_transfer.py)          *)
(*   UnsafeTransferDetector     (detectors/unsafe_transfer.py)             *)
(* Source text is a TLA+ string, so every `in`, split, strip and count of  *)
(* the Python code is computed on characters.  A syntax tree is a table of *)
(* nodes (type, field, parent, children, byte span) in the shape the       *)
(* tree-sitter Rust grammar gives the source.                              *)
(***************************************************************************)
EXTENDS Integers, Sequences, FiniteSets, TLC

VARIABLES
    input,      \* the description the source text and tree were built from
    code,       \* the source text handed to detect
    tree,       \* the syntax tree handed to detect (node table, pre-order)
    det,        \* which detector runs: "unchecked" or "unsafe"
    pc,         \* position of detect
    stack,      \* pending nodes of the recursive traversal (top first)
    issues,     \* the sink: issues appended by the current run
    raised,     \* TRUE when detect ended by raising
    scan,       \* locals of _extract_sol_macro_sections
    sec,        \* index of the section the embedded pass handles next
    run,        \* 1 or 2: which run of detect on this input
    first       \* the sink and outcome of run 1, kept for comparison

vars == <<input, code, tree, det, pc, stack, issues, raised, scan, sec, run, first>>

(***************************************************************************)
(* Python string operations                                                *)
(***************************************************************************)

\* p in s
Contains(s, p) ==
    \E i \in 0..(Len(s) - Len(p)) : SubSeq(s, i + 1, i + Len(p)) = p

\* s.find(p, from): 0-based index of the first occurrence at or after from, else -1
Find(s, p, from) ==
    LET hits == {i \in from..(Len(s) - Len(p)) : SubSeq(s, i + 1, i + Len(p)) = p}
    IN IF hits = {} THEN -1 ELSE CHOOSE i \in hits : \A j \in hits : i <= j

\* s.startswith(p)
StartsWith(s, p) == Len(p) <= Len(s) /\ SubSeq(s, 1, Len(p)) = p

\* s.endswith(p)
EndsWith(s, p) == Len(p) <= Len(s) /\ SubSeq(s, Len(s) - Len(p) + 1, Len(s)) = p

\* s.count(c) for a one-character c
Count(s, c) == Cardinality({i \in 1..Len(s) : SubSeq(s, i, i) = c})

Whitespace == {" ", "\n", "\t"}

RECURSIVE LStrip(_)
LStrip(s) ==
    IF Len(s) > 0 /\ SubSeq(s, 1, 1) \in Whitespace
    THEN LStrip(SubSeq(s, 2, Len(s))) ELSE s

RECURSIVE RStrip(_)
RStrip(s) ==
    IF Len(s) > 0 /\ SubSeq(s, Len(s), Len(s)) \in Whitespace
    THEN RStrip(SubSeq(s, 1, Len(s) - 1)) ELSE s

\* s.strip()
Strip(s) == LStrip(RStrip(s))

\* s.split(sep)
RECURSIVE Split(_, _)
Split(s, sep) ==
    LET k == Find(s, sep, 0)
    IN IF k = -1 THEN <<s>>
       ELSE <<SubSeq(s, 1, k)>> \o Split(SubSeq(s, k + Len(sep) + 1, Len(s)), sep)

\* s.split(): the whitespace-separated words of s
RECURSIVE Words(_)
Words(s) ==
    LET t == LStrip(s)
        ends == {i \in 1..Len(t) : SubSeq(t, i, i) \in Whitespace}
        e == IF ends = {} THEN Len(t) + 1 ELSE CHOOSE i \in ends : \A j \in ends : i <= j
    IN IF t = "" THEN <<>>
       ELSE <<SubSeq(t, 1, e - 1)>> \o Words(SubSeq(t, e, Len(t)))

\* s.replace(" ", "")
RECURSIVE RemoveSpaces(_)
RemoveSpaces(s) ==
    IF s = "" THEN ""
    ELSE (IF SubSeq(s, 1, 1) = " " THEN "" ELSE SubSeq(s, 1, 1))
         \o RemoveSpaces(SubSeq(s, 2, Len(s)))

UpperToLower ==
    [c \in {"A", "B", "C", "D", "E", "F", "G", "H", "I", "J", "K", "L", "M",
            "N", "O", "P", "Q", "R", "S", "T", "U", "V", "W", "X", "Y", "Z"} |->
        CASE c = "A" -> "a" [] c = "B" -> "b" [] c = "C" -> "c" [] c = "D" -> "d"
          [] c = "E" -> "e" [] c = "F" -> "f" [] c = "G" -> "g" [] c = "H" -> "h"
          [] c = "I" -> "i" [] c = "J" -> "j" [] c = "K" -> "k" [] c = "L" -> "l"
          [] c = "M" -> "m" [] c = "N" -> "n" [] c = "O" -> "o" [] c = "P" -> "p"
          [] c = "Q" -> "q" [] c = "R" -> "r" [] c = "S" -> "s" [] c = "T" -> "t"
          [] c = "U" -> "u" [] c = "V" -> "v" [] c = "W" -> "w" [] c = "X" -> "x"
          [] c = "Y" -> "y" [] c = "Z" -> "z"]

\* s.lower()
RECURSIVE Lower(_)
Lower(s) ==
    IF s = "" THEN ""
    ELSE LET c == SubSeq(s, 1, 1)
         IN (IF c \in DOMAIN UpperToLower THEN UpperToLower[c] ELSE c)
            \o Lower(SubSeq(s, 2, Len(s)))

\* any(p in s for p in ps)
ContainsAny(s, ps) == \E k \in 1..Len(ps) : Contains(s, ps[k])

(***************************************************************************)
(* Syntax trees.  A source is written as a nested term whose leaves are    *)
(* the tokens and the white space between them; Parse turns the term into  *)
(* the node table tree-sitter gives for its text: one entry per node, in   *)
(* pre-order, with byte offsets into the text.  White space is no node.    *)
(***************************************************************************)

Lf(t, s) == [type |-> t, text |-> s, kids |-> <<>>, field |-> ""]
\* an anonymous token: its type is its text
P(s) == Lf(s, s)
W(s) == Lf("ws", s)
Id(s) == Lf("identifier", s)
N(t, ks) == [type |-> t, text |-> "", kids |-> ks, field |-> ""]
Fd(f, n) == [n EXCEPT !.field = f]

RECURSIVE Render(_)
RECURSIVE RenderAll(_)
\* the source text a term stands for
Render(n) == IF n.kids = <<>> THEN n.text ELSE RenderAll(n.kids)
RenderAll(ks) == IF ks = <<>> THEN "" ELSE Render(Head(ks)) \o RenderAll(Tail(ks))

RECURSIVE Size(_)
RECURSIVE SizeAll(_)
\* number of nodes of a term
Size(n) == IF n.type = "ws" THEN 0 ELSE 1 + SizeAll(n.kids)
SizeAll(ks) == IF ks = <<>> THEN 0 ELSE Size(Head(ks)) + SizeAll(Tail(ks))

RECURSIVE ChildIdx(_, _)
\* table indices of the children, the first child being entered at nxt
ChildIdx(ks, nxt) ==
    IF ks = <<>> THEN <<>>
    ELSE IF Head(ks).type = "ws" THEN ChildIdx(Tail(ks), nxt)
    ELSE <<nxt>> \o ChildIdx(Tail(ks), nxt + Size(Head(ks)))

RECURSIVE Flat(_, _, _, _)
RECURSIVE FlatAll(_, _, _, _)
Flat(n, par, idx, off) ==
    <<[type |-> n.type, field |-> n.field, parent |-> par,
       children |-> ChildIdx(n.kids, idx + 1),
       start |-> off, end |-> off + Len(Render(n))]>>
    \o FlatAll(n.kids, idx, idx + 1, off)
FlatAll(ks, par, nxt, off) ==
    IF ks = <<>> THEN <<>>
    ELSE IF Head(ks).type = "ws"
         THEN FlatAll(Tail(ks), par, nxt, off + Len(Head(ks).text))
    ELSE Flat(Head(ks), par, nxt, off)
         \o FlatAll(Tail(ks), par, nxt + Size(Head(ks)), off + Len(Render(Head(ks))))

\* parser.parse(code): the node table of a source; node 1 is the root
Parse(src) == Flat(src, 0, 1, 0)

(***************************************************************************)
(* The sources analysed.  A source is one Rust function, optionally        *)
(* preceded by a `use` of the token interface and followed by sol! blocks. *)
(* The function body is a transfer statement (its form) followed by        *)
(* follow-up statements.                                                   *)
(***************************************************************************)

\* f(args)
Call(fn, args) ==
    N("call_expression",
      <<Fd("function", fn),
        Fd("arguments", N("arguments", <<P("(")>> \o args \o <<P(")")>>))>>)

\* recv.m
Method(recv, m) ==
    N("field_expression",
      <<Fd("value", recv), P("."), Fd("field", Lf("field_identifier", m))>>)

\* token.transferFrom(<from>, <recipient>, amt)
TransferFrom(from, recipient) ==
    Call(Method(Id("token"), "transferFrom"),
         <<from, P(","), W(" "), recipient, P(","), W(" "), Id("amt")>>)

\* token.transfer(to, amt)
TransferTo(recipient) ==
    Call(Method(Id("token"), "transfer"), <<recipient, P(","), W(" "), Id("amt")>>)

Transfer == TransferTo(Id("to"))

ExprStmt(e) == N("expression_statement", <<e, P(";")>>)

\* { revert(); }
RevertBlock ==
    N("block", <<P("{"), W(" "), ExprStmt(Call(Id("revert"), <<>>)), W(" "), P("}")>>)

\* let <pat> = <value>;
Let(pat, value) ==
    N("let_declaration",
      <<P("let"), W(" "), Fd("pattern", pat), W(" "), P("="), W(" "),
        Fd("value", value), P(";")>>)

\* if <cond> { revert(); }   (an if in statement position)
IfStmt(cond) ==
    N("expression_statement",
      <<N("if_expression",
          <<P("if"), W(" "), Fd("condition", cond), W(" "),
            Fd("consequence", RevertBlock)>>)>>)

\* <ctor>(<inner>) => <value>,
Arm(ctor, inner, value) ==
    N("match_arm",
      <<Fd("pattern",
           N("match_pattern",
             <<N("tuple_struct_pattern",
                 <<Fd("type", Id(ctor)), P("("), inner, P(")")>>)>>)),
        W(" "), P("=>"), W(" "), Fd("value", value), P(",")>>)

\* match token.transfer(to, amt) { Ok(_) => done(), <errArm> }
\* The grammar puts the arms under a match_block, the body of the
\* match_expression.
MatchStmt(errArm) ==
    N("expression_statement",
      <<N("match_expression",
          <<P("match"), W(" "), Fd("value", Transfer), W(" "),
            Fd("body",
               N("match_block",
                 <<P("{"), W(" "), Arm("Ok", P("_"), Call(Id("done"), <<>>)), W(" "),
                   errArm, W(" "), P("}")>>))>>)>>)

\* Err(_) => {},
ErrEmptyArm == Arm("Err", P("_"), N("block", <<P("{"), P("}")>>))

\* Err(e) => return Err(e),
ErrReturnArm ==
    Arm("Err", Id("e"),
        N("return_expression", <<P("return"), W(" "), Call(Id("Err"), <<Id("e")>>)>>))

\* the statement that holds the transfer
FormStmt(form) ==
    CASE form = "discard" -> Let(P("_"), Transfer)
      [] form = "chain"   -> Let(P("_"), Call(Method(Transfer, "unwrap"), <<>>))
      [] form = "named"   -> Let(Id("ok"), Transfer)
      [] form = "ifcond"  -> IfStmt(Transfer)
      [] form = "bare"    -> ExprStmt(Transfer)
      [] form = "matchE"  -> MatchStmt(ErrEmptyArm)
      [] form = "matchR"  -> MatchStmt(ErrReturnArm)
      [] form = "sender"  ->
            ExprStmt(TransferTo(
                Call(N("scoped_identifier",
                       <<Fd("path", Id("msg")), P("::"), Fd("name", Id("sender"))>>),
                     <<>>)))
      [] form = "burn"    ->
            ExprStmt(TransferTo(
                N("scoped_identifier",
                  <<Fd("path", Id("Address")), P("::"), Fd("name", Id("ZERO"))>>)))
      [] form = "lowcall" ->
            ExprStmt(Call(Method(Id("token"), "call"), <<Id("transfer_data")>>))
      [] form = "ifnot"   -> IfStmt(N("unary_expression", <<P("!"), Transfer>>))
      [] form = "ifeq"    ->
            IfStmt(N("binary_expression",
                     <<Fd("left", Transfer), W(" "), P("=="), W(" "),
                       Fd("right", Lf("boolean_literal", "false"))>>))
      [] form = "tfrom"    -> ExprStmt(TransferFrom(Id("vault"), Id("to")))
      [] form = "tfromsrc" -> ExprStmt(TransferFrom(Id("to"), Id("vault")))

Forms ==
    {"discard", "chain", "named", "ifcond", "bare", "matchE", "matchR",
     "sender", "burn", "lowcall"}

\* a transfer under a negation or a comparison in a condition; transferFrom
\* with the parameter as the recipient, and as the source account
MoreForms == {"ifnot", "ifeq", "tfrom", "tfromsrc"}

\* a statement after the transfer
FollowStmt(k) ==
    CASE k = "guard"    -> IfStmt(N("unary_expression", <<P("!"), Id("ok")>>))
      [] k = "cguard"   -> Lf("line_comment", "// if !ok { revert(); }")
      [] k = "ret"      ->
            ExprStmt(N("return_expression", <<P("return"), W(" "), Id("ok")>>))
      [] k = "retother" ->
            ExprStmt(N("return_expression", <<P("return"), W(" "), Id("okay")>>))
      [] k = "again"    -> ExprStmt(Transfer)
      [] k = "require"  ->
            ExprStmt(Call(Id("require"),
                <<N("binary_expression",
                    <<Fd("left", Id("to")), W(" "), P("!="), W(" "),
                      Fd("right",
                         N("scoped_identifier",
                           <<Fd("path", Id("Address")), P("::"),
                             Fd("name", Id("ZERO"))>>))>>)>>))

FollowKinds == {"guard", "cguard", "ret", "retother", "require"}

RECURSIVE Indented(_)
\* each statement on a line of its own
Indented(stmts) ==
    IF stmts = <<>> THEN <<>>
    ELSE <<W("\n    "), Head(stmts)>> \o Indented(Tail(stmts))

\* name: Type
Param(name, type) ==
    N("parameter",
      <<Fd("pattern", Id(name)), P(":"), W(" "), Fd("type", Lf("type_identifier", type))>>)

\* fn <fname>(to: Address, amt: U256) { <stmts> }
FunctionItem(fname, stmts) ==
    N("function_item",
      <<P("fn"), W(" "), Fd("name", Id(fname)),
        Fd("parameters",
           N("parameters",
             <<P("("), Param("to", "Address"), P(","), W(" "), Param("amt", "U256"),
               P(")")>>)),
        W(" "),
        Fd("body", N("block", <<P("{")>> \o Indented(stmts) \o <<W("\n"), P("}")>>))>>)

\* use stylus_sdk::IERC20;
UseIERC20 ==
    N("use_declaration",
      <<P("use"), W(" "),
        Fd("argument",
           N("scoped_identifier",
             <<Fd("path", Id("stylus_sdk")), P("::"), Fd("name", Id("IERC20"))>>)),
        P(";")>>)

(***************************************************************************)
(* sol! blocks.  Rust parses the inside of a macro invocation as a token   *)
(* tree: tokens, and a nested token_tree for each bracketed group.         *)
(***************************************************************************)

Punct == {"(", ")", "{", "}", ";", ",", ".", "!", "=", ":"}

\* one token (or the white space) a string stands for
Tok(s) ==
    IF SubSeq(s, 1, 1) \in Whitespace THEN W(s)
    ELSE IF s \in Punct THEN P(s)
    ELSE IF SubSeq(s, 1, 1) = "\"" THEN Lf("string_literal", s)
    ELSE Id(s)

Toks(ss) == [k \in 1..Len(ss) |-> Tok(ss[k])]

TT(open, inner, close) == N("token_tree", <<P(open)>> \o inner \o <<P(close)>>)

\* function transfer(address to, uint256 amount) external returns (bool);
SolDecl ==
    Toks(<<"\n    ", "function", " ", "transfer">>)
    \o <<TT("(", Toks(<<"address", " ", "to", ",", " ", "uint256", " ", "amount">>), ")")>>
    \o Toks(<<" ", "external", " ", "returns", " ">>)
    \o <<TT("(", Toks(<<"bool">>), ")")>>
    \o Toks(<<";">>)

\* interface IToken {
\*     function approve(address spender) external;
\* }
SolInterface ==
    Toks(<<"\n    ", "interface", " ", "IToken", " ">>)
    \o <<TT("{",
            Toks(<<"\n        ", "function", " ", "approve">>)
            \o <<TT("(", Toks(<<"address", " ", "spender">>), ")")>>
            \o Toks(<<" ", "external", ";", "\n    ">>),
            "}")>>

\* function unsafeTransferERC20(address token, address to, uint256 amount) {
\*     token.call(abi.encodeWithSignature("transfer(address,uint256)", to, amount));
\* }
SolUnsafeFn ==
    Toks(<<"\n    ", "function", " ", "unsafeTransferERC20">>)
    \o <<TT("(",
            Toks(<<"address", " ", "token", ",", " ", "address", " ", "to", ",", " ",
                   "uint256", " ", "amount">>),
            ")")>>
    \o Toks(<<" ">>)
    \o <<TT("{",
            Toks(<<"\n        ", "token", ".", "call">>)
            \o <<TT("(",
                    Toks(<<"abi", ".", "encodeWithSignature">>)
                    \o <<TT("(",
                            Toks(<<"\"transfer(address,uint256)\"", ",", " ", "to", ",",
                                   " ", "amount">>),
                            ")")>>,
                    ")")>>
            \o Toks(<<";", "\n    ">>),
            "}")>>

\* function pay(address token, uint256 amount) {
\*     token.transfer(msg.sender, amount);
\* }
SolSenderFn ==
    Toks(<<"\n    ", "function", " ", "pay">>)
    \o <<TT("(",
            Toks(<<"address", " ", "token", ",", " ", "uint256", " ", "amount">>),
            ")")>>
    \o Toks(<<" ">>)
    \o <<TT("{",
            Toks(<<"\n        ", "token", ".", "transfer">>)
            \o <<TT("(", Toks(<<"msg", ".", "sender", ",", " ", "amount">>), ")")>>
            \o Toks(<<";", "\n    ">>),
            "}")>>

\* token.call(abi.encodeWithSignature("transfer(address,uint256)", to, amount))
SolLowLevelCall ==
    Toks(<<"token", ".", "call">>)
    \o <<TT("(",
            Toks(<<"abi", ".", "encodeWithSignature">>)
            \o <<TT("(",
                    Toks(<<"\"transfer(address,uint256)\"", ",", " ", "to", ",",
                           " ", "amount">>),
                    ")")>>,
            ")")>>

\* (address token, address to, uint256 amount)
SolTransferParams ==
    TT("(",
       Toks(<<"address", " ", "token", ",", " ", "address", " ", "to", ",", " ",
              "uint256", " ", "amount">>),
       ")")

\* function sweep(address token, address to, uint256 amount) {
\*     token.call(abi.encodeWithSignature("transfer(address,uint256)", to, amount));
\* }
SolSweepFn ==
    Toks(<<"\n    ", "function", " ", "sweep">>)
    \o <<SolTransferParams>>
    \o Toks(<<" ">>)
    \o <<TT("{",
            Toks(<<"\n        ">>) \o SolLowLevelCall \o Toks(<<";", "\n    ">>),
            "}")>>

\* function transferChecked(address token, address to, uint256 amount) {
\*     (bool success, ) = token.call(abi.encodeWithSignature("transfer(address,uint256)", to, amount));
\*     require(success);
\* }
SolCheckedFn ==
    Toks(<<"\n    ", "function", " ", "transferChecked">>)
    \o <<SolTransferParams>>
    \o Toks(<<" ">>)
    \o <<TT("{",
            Toks(<<"\n        ">>)
            \o <<TT("(", Toks(<<"bool", " ", "success", ",", " ">>), ")")>>
            \o Toks(<<" ", "=", " ">>) \o SolLowLevelCall
            \o Toks(<<";", "\n        ", "require">>)
            \o <<TT("(", Toks(<<"success">>), ")")>>
            \o Toks(<<";", "\n    ">>),
            "}")>>

\* function transferLogged(address token, address to, uint256 amount) {
\*     (bool success, ) = token.call(abi.encodeWithSignature("transfer(address,uint256)", to, amount));
\* }
SolUnguardedFn ==
    Toks(<<"\n    ", "function", " ", "transferLogged">>)
    \o <<SolTransferParams>>
    \o Toks(<<" ">>)
    \o <<TT("{",
            Toks(<<"\n        ">>)
            \o <<TT("(", Toks(<<"bool", " ", "success", ",", " ">>), ")")>>
            \o Toks(<<" ", "=", " ">>) \o SolLowLevelCall
            \o Toks(<<";", "\n    ">>),
            "}")>>

\* function unsafeTransferERC20(address token, address to, uint256 amount) {
\*     emit Skipped();
\* } // end
SolQuietFn ==
    Toks(<<"\n    ", "function", " ", "unsafeTransferERC20">>)
    \o <<SolTransferParams>>
    \o Toks(<<" ">>)
    \o <<TT("{",
            Toks(<<"\n        ", "emit", " ", "Skipped">>)
            \o <<TT("(", <<>>, ")")>>
            \o Toks(<<";", "\n    ">>),
            "}")>>
    \o <<W(" "), Lf("line_comment", "// end")>>

SolItem(k) ==
    CASE k = "decl"  -> SolDecl
      [] k = "iface" -> SolInterface
      [] k = "fn"    -> SolUnsafeFn
      [] k = "pay"   -> SolSenderFn
      [] k = "sweep" -> SolSweepFn
      [] k = "checked"   -> SolCheckedFn
      [] k = "unguarded" -> SolUnguardedFn
      [] k = "quiet" -> SolQuietFn

SolItemKinds == {"decl", "iface", "fn", "pay"}

\* functions that make, or do not make, a low-level transfer call
SolCallKinds == {"sweep", "checked", "unguarded", "quiet"}

RECURSIVE SolItems(_)
SolItems(ks) == IF ks = <<>> THEN <<>> ELSE SolItem(Head(ks)) \o SolItems(Tail(ks))

\* sol! { <items> }   or, without the closing line, the marker and the items:
\* the parser has no macro invocation to give for those, only an ERROR node
SolBlock(b) ==
    IF b.closed
    THEN N("macro_invocation",
           <<Fd("macro", Id("sol")), P("!"), W(" "),
             N("token_tree", <<P("{")>> \o SolItems(b.items) \o <<W("\n"), P("}")>>)>>)
    ELSE N("ERROR", <<Id("sol"), P("!"), W(" "), P("{")>> \o SolItems(b.items))

RECURSIVE SolBlocks(_)
SolBlocks(bs) ==
    IF bs = <<>> THEN <<>>
    ELSE <<W("\n"), SolBlock(Head(bs))>> \o SolBlocks(Tail(bs))

\* the source an input describes
Source(in) ==
    N("source_file",
      (IF in.marker THEN <<UseIERC20, W("\n")>> ELSE <<>>)
      \o <<FunctionItem(in.fname, <<FormStmt(in.form)>>
                                  \o [k \in 1..Len(in.follow) |-> FollowStmt(in.follow[k])])>>
      \o SolBlocks(in.blocks))

(***************************************************************************)
(* Bounds of the inputs                                                    *)
(***************************************************************************)

\* follow-up statements after the transfer statement
MaxFollow == 2
\* items in a sol! block
MaxItems == 2

SeqsUpTo(S, n) == UNION {[1..k -> S] : k \in 0..n}

\* function names: one that names no skipped keyword, two that do
FuncNames == {"withdraw", "withdraw_remaining", "deploy_funds"}

\* Rust functions, no sol! block
RustInputs ==
    [marker : {TRUE}, fname : {"withdraw"}, form : Forms,
     follow : SeqsUpTo(FollowKinds, MaxFollow), blocks : {<<>>}]
    \cup
    [marker : {FALSE}, fname : FuncNames, form : Forms,
     follow : SeqsUpTo({"guard", "require"}, 1), blocks : {<<>>}]

\* the block before the last one, when there is one: closed
EarlierBlocks == {<<>>, <<[items |-> <<"decl", "fn">>, closed |-> TRUE]>>}

\* one Rust function followed by sol! blocks, the last of them closed or not
EmbeddedInputs ==
    {[marker |-> TRUE, fname |-> "withdraw", form |-> "discard", follow |-> <<>>,
      blocks |-> e \o <<[items |-> it, closed |-> c]>>] :
        e \in EarlierBlocks, it \in SeqsUpTo(SolItemKinds, MaxItems), c \in BOOLEAN}

\* Rust functions of the other forms
MoreRustInputs ==
    [marker : BOOLEAN, fname : {"withdraw"}, form : MoreForms,
     follow : SeqsUpTo({"guard", "require"}, 1), blocks : {<<>>}]

\* Rust functions with a second transfer statement
TwoTransferInputs ==
    [marker : {TRUE}, fname : {"withdraw"}, form : {"discard", "chain", "bare"},
     follow : {<<"again">>}, blocks : {<<>>}]

\* one Rust function followed by one closed sol! block of one or two functions
CallBlockInputs ==
    {[marker |-> TRUE, fname |-> "withdraw", form |-> "discard", follow |-> <<>>,
      blocks |-> <<[items |-> it, closed |-> TRUE]>>] :
        it \in SeqsUpTo(SolCallKinds, 2) \ {<<>>}}

Inputs ==
    RustInputs \cup EmbeddedInputs \cup MoreRustInputs \cup TwoTransferInputs
    \cup CallBlockInputs

(***************************************************************************)
(* BaseDetector helpers and the sink                                       *)
(***************************************************************************)

\* _get_node_text(node, code): code[node.start_byte:node.end_byte]
NodeText(n) == SubSeq(code, tree[n].start + 1, tree[n].end)

\* 1-based line of a byte offset
LineOf(off) == 1 + Count(SubSeq(code, 1, off), "\n")

\* _get_line_for_node(node): 1-based first and last line of the node
LineForNode(n) == <<LineOf(tree[n].start), LineOf(tree[n].end)>>

\* the record results.add_issue appends (a backquote in a recommendation is
\* written as a quote: the lexer of TLA+ takes no backquote in a string)
Issue(type, sev, desc, ls, le, snip, rec) ==
    [issue_type |-> type, severity |-> sev, description |-> desc,
     line_start |-> ls, line_end |-> le, code_snippet |-> snip,
     recommendation |-> rec]

\* node.child_by_field_name(f): 0 for None
ChildByFieldName(n, f) ==
    LET cs == {c \in 1..Len(tree) : tree[c].parent = n /\ tree[c].field = f}
    IN IF cs = {} THEN 0 ELSE CHOOSE c \in cs : \A d \in cs : c <= d

\* the siblings after node n, in order
RECURSIVE After(_, _)
After(cs, n) ==
    IF cs = <<>> THEN <<>> ELSE IF Head(cs) = n THEN Tail(cs) ELSE After(Tail(cs), n)

NextSiblings(n) ==
    IF tree[n].parent = 0 THEN <<>> ELSE After(tree[tree[n].parent].children, n)

(***************************************************************************)
(* UncheckedTransferDetector: the tree pass                                *)
(***************************************************************************)

RECURSIVE AscendToFunction(_)
AscendToFunction(p) ==
    IF p = 0 THEN 0
    ELSE IF tree[p].type \in {"function_item", "impl_item"} THEN p
    ELSE AscendToFunction(tree[p].parent)

\* _find_parent_function(node): 0 for None
FindParentFunction(n) == AscendToFunction(tree[n].parent)

\* _is_token_interface_call
IsTokenInterfaceCall(n) ==
    LET call_text == NodeText(n)
        function_node == FindParentFunction(n)
    IN IF ContainsAny(call_text, <<".transfer(", ".transferFrom(", ".approve(">>)
       THEN \/ function_node # 0 /\ Contains(NodeText(function_node), "IERC20")
            \/ Contains(SubSeq(code, 1, tree[n].start), "IERC20")
       ELSE FALSE

\* the text of the first child of type identifier; "" for None
RECURSIVE FirstIdentifier(_)
FirstIdentifier(cs) ==
    IF cs = <<>> THEN ""
    ELSE IF tree[Head(cs)].type = "identifier" THEN NodeText(Head(cs))
    ELSE FirstIdentifier(Tail(cs))

\* f"if !{v}" in t or f"if {v}" in t or f"require({v}" in t
HasGuardText(t, v) ==
    \/ Contains(t, "if !" \o v)
    \/ Contains(t, "if " \o v)
    \/ Contains(t, "require(" \o v)

\* the same three, commented out
HasCommentedGuardText(t, v) ==
    \/ Contains(t, "// if !" \o v)
    \/ Contains(t, "// if " \o v)
    \/ Contains(t, "// require(" \o v)

\* a line that returns the variable and has neither "if" nor "require"
HasPlainReturn(t, v) ==
    LET lines == Split(t, "\n")
    IN \E k \in 1..Len(lines) :
          /\ Contains(lines[k], "return " \o v)
          /\ ~Contains(lines[k], "if")
          /\ ~Contains(lines[k], "require")

\* the loop over parent.next_sibling
SiblingGuards(p, v) ==
    LET sibs == NextSiblings(p)
    IN \E k \in 1..Len(sibs) :
          Contains(NodeText(sibs[k]), v) /\ HasGuardText(NodeText(sibs[k]), v)

\* the branch of _is_return_value_checked for a let binding of a name
LetBindingChecked(n, p, v) ==
    LET function_node == FindParentFunction(n)
        function_text == NodeText(function_node)
    IN IF function_node # 0 /\ HasCommentedGuardText(function_text, v) THEN FALSE
       ELSE IF function_node # 0 /\ HasPlainReturn(function_text, v) THEN FALSE
       ELSE IF function_node # 0 /\ HasGuardText(function_text, v) THEN TRUE
       ELSE SiblingGuards(p, v)

\* a mutant: the test names a node type the grammar does not have
IsIfConditionWrongType(p, n) ==
    tree[p].type = "if_statement" /\ ChildByFieldName(p, "condition") = n

\* parent.type == "if_expression" and parent.child_by_field_name("condition") == node
IsIfCondition(p, n) ==
    tree[p].type = "if_expression" /\ ChildByFieldName(p, "condition") = n

\* the while loop of _is_return_value_checked, from ancestor p upwards
RECURSIVE AscendChecked(_, _)
AscendChecked(n, p) ==
    IF p = 0 \/ tree[p].type = "block" THEN FALSE
    ELSE LET var_name ==
                 IF tree[p].type = "let_declaration" /\ Contains(NodeText(p), ".transfer")
                 THEN FirstIdentifier(tree[p].children) ELSE ""
             isLet == tree[p].type = "let_declaration" /\ Contains(NodeText(p), ".transfer")
         IN IF isLet /\ var_name # "" /\ var_name # "_" THEN LetBindingChecked(n, p, var_name)
            ELSE IF isLet /\ var_name = "_" THEN FALSE
            ELSE IF IsIfCondition(p, n) THEN TRUE
            ELSE IF tree[p].type = "return_expression"
                 THEN Contains(NodeText(p), "if") \/ Contains(NodeText(p), "require")
            ELSE AscendChecked(n, tree[p].parent)

\* _is_return_value_checked
IsReturnValueChecked(n) ==
    LET parent == tree[n].parent
        expr_text == NodeText(parent)
    IN IF /\ tree[parent].type = "expression_statement"
          /\ (Contains(expr_text, "let _ =") \/ ~StartsWith(Strip(expr_text), "let"))
       THEN FALSE
       ELSE AscendChecked(n, parent)

RECURSIVE AscendCallChecked(_, _)
AscendCallChecked(n, p) ==
    IF p = 0 \/ tree[p].type = "function_item" THEN FALSE
    ELSE LET function_node == FindParentFunction(n)
         IN IF /\ ContainsAny(NodeText(p), <<"(bool success,", "bool success">>)
               /\ function_node # 0
               /\ ContainsAny(NodeText(function_node),
                              <<"require(success", "if success", "if !success">>)
            THEN TRUE
            ELSE AscendCallChecked(n, tree[p].parent)

\* _is_call_result_checked
IsCallResultChecked(n) ==
    IF tree[tree[n].parent].type = "expression_statement" THEN FALSE
    ELSE AscendCallChecked(n, tree[n].parent)

\* the loop of _is_transfer_error_ignored over the children of the match
RECURSIVE ErrorArmIgnored(_)
ErrorArmIgnored(cs) ==
    IF cs = <<>> THEN FALSE
    ELSE LET arm_text == NodeText(Head(cs))
         IN IF tree[Head(cs)].type = "match_arm" /\ Contains(arm_text, "Err")
            THEN IF ContainsAny(RemoveSpaces(arm_text), <<"=> {}", "=>{}">>) THEN TRUE
                 ELSE IF Contains(arm_text, "return") \/ Contains(arm_text, "revert")
                      THEN FALSE
                 ELSE ErrorArmIgnored(Tail(cs))
            ELSE ErrorArmIgnored(Tail(cs))

\* _is_transfer_error_ignored
IsTransferErrorIgnored(n) == ErrorArmIgnored(tree[n].children)

\* the issues _find_unchecked_transfers appends at node n itself
FindUncheckedTransfersAt(n) ==
    LET text == NodeText(n)
        lines == LineForNode(n)
    IN IF tree[n].type = "call_expression"
       THEN IF ContainsAny(text, <<".transfer(", ".transferFrom(">>)
            THEN IF IsTokenInterfaceCall(n) /\ ~IsReturnValueChecked(n)
                 THEN <<Issue("unchecked_transfer", "High",
                          "ERC20 transfer call with unchecked return value. This can lead to silent failures.",
                          lines[1], lines[2], text,
                          "Check the boolean return value of transfer calls (e.g., 'if !success { revert }').")>>
                 ELSE <<>>
            ELSE IF Contains(text, ".call(") /\ Contains(text, "transfer")
                 THEN IF ~IsCallResultChecked(n)
                      THEN <<Issue("unchecked_transfer", "High",
                               "Low-level call to transfer function without checking return value.",
                               lines[1], lines[2], text,
                               "Check the return value using '(bool success, bytes memory returnData) = ...' and verify success.")>>
                      ELSE <<>>
            ELSE <<>>
       ELSE IF tree[n].type = "match_expression"
            THEN IF Contains(text, "transfer") /\ IsTransferErrorIgnored(n)
                 THEN <<Issue("unchecked_transfer", "High",
                          "Transfer errors are explicitly caught and ignored. This can lead to silent failures.",
                          lines[1], lines[2], text,
                          "Handle errors appropriately by propagating them or providing fallback behavior.")>>
                 ELSE <<>>
       ELSE <<>>

(***************************************************************************)
(* UncheckedTransferDetector: the embedded-block pass                      *)
(***************************************************************************)

\* the locals of _extract_sol_macro_sections before its loop; i counts the
\* lines the loop has handled
ExtractStart(text) ==
    [lines |-> Split(text, "\n"), i |-> 0, in_sol_macro |-> FALSE,
     sol_start_line |-> 0, sol_code |-> "", sections |-> <<>>]

\* a mutant: the end of the text closes an open section
ExtractLineFlushesAtEnd(sc) ==
    LET i == sc.i
        line == sc.lines[i + 1]
        sol_code == sc.sol_code \o line \o "\n"
    IN IF Contains(line, "sol! {")
       THEN [sc EXCEPT !.i = i + 1, !.in_sol_macro = TRUE,
                       !.sol_start_line = i + 1, !.sol_code = ""]
       ELSE IF sc.in_sol_macro
            THEN IF \/ /\ Contains(line, "}")
                       /\ (Strip(line) = "}" \/ EndsWith(Strip(line), "}"))
                    \/ i + 1 = Len(sc.lines)
                 THEN [sc EXCEPT !.i = i + 1, !.in_sol_macro = FALSE,
                                 !.sol_code = sol_code,
                                 !.sections =
                                     Append(@, [code |-> sol_code,
                                                start_line |-> sc.sol_start_line])]
                 ELSE [sc EXCEPT !.i = i + 1, !.sol_code = sol_code]
       ELSE [sc EXCEPT !.i = i + 1]

\* one iteration of the loop of _extract_sol_macro_sections
ExtractLine(sc) ==
    LET i == sc.i
        line == sc.lines[i + 1]
        sol_code == sc.sol_code \o line \o "\n"
    IN IF Contains(line, "sol! {")
       THEN [sc EXCEPT !.i = i + 1, !.in_sol_macro = TRUE,
                       !.sol_start_line = i + 1, !.sol_code = ""]
       ELSE IF sc.in_sol_macro
            THEN IF /\ Contains(line, "}")
                    /\ (Strip(line) = "}" \/ EndsWith(Strip(line), "}"))
                 THEN [sc EXCEPT !.i = i + 1, !.in_sol_macro = FALSE,
                                 !.sol_code = sol_code,
                                 !.sections =
                                     Append(@, [code |-> sol_code,
                                                start_line |-> sc.sol_start_line])]
                 ELSE [sc EXCEPT !.i = i + 1, !.sol_code = sol_code]
       ELSE [sc EXCEPT !.i = i + 1]

\* the loop that collects a function body: from line j (0-based) on
RECURSIVE FunctionBody(_, _, _, _, _)
FunctionBody(lines, j, brace_count, in_function, func_body) ==
    IF j >= Len(lines) THEN func_body
    ELSE LET l == lines[j + 1]
             inf == in_function \/ Contains(l, "{")
             opened == IF Contains(l, "{") THEN brace_count + Count(l, "{")
                       ELSE brace_count
             body == IF inf THEN func_body \o l \o "\n" ELSE func_body
             closed == IF Contains(l, "}") THEN opened - Count(l, "}") ELSE opened
         IN IF Contains(l, "}") /\ closed = 0 /\ inf THEN body
            ELSE FunctionBody(lines, j + 1, closed, inf, body)

\* index (0-based) of the first line of a body with a low-level transfer call, or -1
FirstCallLine(body_lines) ==
    LET hits == {j \in 0..(Len(body_lines) - 1) :
                    /\ Contains(body_lines[j + 1], ".call(")
                    /\ ContainsAny(body_lines[j + 1], <<"transfer", "transferFrom">>)}
    IN IF hits = {} THEN -1 ELSE CHOOSE j \in hits : \A k \in hits : j <= k

\* what _find_solidity_unchecked_transfers appends for line i (0-based)
SolidityUncheckedAt(lines, start_line, i) ==
    LET line == lines[i + 1]
        line_num == start_line + i
        function_name == Strip(Split(Split(line, "function ")[2], "(")[1])
        func_body == FunctionBody(lines, i, 0, FALSE, "")
        j == FirstCallLine(Split(func_body, "\n"))
    IN IF ~(Contains(line, "function ") /\ Contains(line, "transfer")) THEN <<>>
       ELSE IF ~(/\ function_name # ""
                 /\ Contains(func_body, ".call(")
                 /\ ContainsAny(func_body, <<"transfer(", "transferFrom(">>))
            THEN <<>>
       ELSE IF ~(\/ (/\ ~Contains(func_body, "(bool success")
                     /\ ~Contains(func_body, "(bool")
                     /\ ~Contains(func_body, "success"))
                 \/ (/\ ~Contains(func_body, "require(success")
                     /\ ~Contains(func_body, "require")))
            THEN <<>>
       ELSE IF j = -1 \/ line_num + j = 0 THEN <<>>
       ELSE <<Issue("unchecked_transfer", "High",
                "Solidity function '" \o function_name
                    \o "' contains unchecked transfer call. This can lead to silent failures.",
                line_num + j, line_num + j, Strip(Split(func_body, "\n")[j + 1]),
                "Check the return value using '(bool success, bytes memory returnData) = ...' and verify success with require.")>>

RECURSIVE SolidityUncheckedFrom(_, _, _)
SolidityUncheckedFrom(lines, start_line, i) ==
    IF i >= Len(lines) THEN <<>>
    ELSE SolidityUncheckedAt(lines, start_line, i)
         \o SolidityUncheckedFrom(lines, start_line, i + 1)

\* _find_solidity_unchecked_transfers(code, start_line): the issues it appends
FindSolidityUncheckedTransfers(text, start_line) ==
    SolidityUncheckedFrom(Split(text, "\n"), start_line, 0)

\* the "look at most 15 lines ahead" of _find_predefined_unsafe_transfers
SearchLookahead == 15

UnsafeFunctions == <<"unsafeTransferERC20", "unsafeTransferFromERC20">>

\* while i < len(lines) and "{" not in lines[i]: i += 1
RECURSIVE SkipToBrace(_, _)
SkipToBrace(lines, i) ==
    IF i < Len(lines) /\ ~Contains(lines[i + 1], "{") THEN SkipToBrace(lines, i + 1)
    ELSE i

\* the search loop: the line (0-based) of the call found, or -1
RECURSIVE SearchCall(_, _, _, _)
SearchCall(lines, j, search_limit, brace_count) ==
    IF j >= search_limit THEN -1
    ELSE LET l == lines[j + 1]
             count == brace_count + Count(l, "{") - Count(l, "}")
         IN IF Contains(l, ".call(") /\ Contains(l, "transfer") THEN j
            ELSE IF count = 0 THEN -1
            ELSE SearchCall(lines, j + 1, search_limit, count)

\* the loop over unsafe_functions for one line; i is carried from one
\* function name to the next, as the code's loop variable is
RECURSIVE PredefinedAt(_, _, _, _, _)
PredefinedAt(lines, start_line, i0, i, k) ==
    IF k > Len(UnsafeFunctions) THEN <<>>
    ELSE IF ~Contains(lines[i0 + 1], "function " \o UnsafeFunctions[k])
         THEN PredefinedAt(lines, start_line, i0, i, k + 1)
    ELSE LET func_line == start_line + i0
             b == SkipToBrace(lines, i)
             search_limit == IF b + SearchLookahead < Len(lines)
                             THEN b + SearchLookahead ELSE Len(lines)
             found == IF b < Len(lines)
                      THEN SearchCall(lines, b, search_limit, Count(lines[b + 1], "{"))
                      ELSE -1
         IN (IF found = -1 \/ start_line + found = 0 THEN <<>>
             ELSE <<Issue("unchecked_transfer", "High",
                      "Solidity function '" \o UnsafeFunctions[k]
                          \o "' (line " \o ToString(func_line)
                          \o ") uses unchecked transfer call. Return value is not checked.",
                      start_line + found, start_line + found, Strip(lines[found + 1]),
                      "Check the return value: '(bool success, bytes memory returnData) = token.call(...); require(success, ...)'")>>)
            \o PredefinedAt(lines, start_line, i0, b, k + 1)

RECURSIVE PredefinedFrom(_, _, _)
PredefinedFrom(lines, start_line, i) ==
    IF i >= Len(lines) THEN <<>>
    ELSE PredefinedAt(lines, start_line, i, i, 1)
         \o PredefinedFrom(lines, start_line, i + 1)

\* _find_predefined_unsafe_transfers(code, start_line): the issues it appends
FindPredefinedUnsafeTransfers(text, start_line) ==
    PredefinedFrom(Split(text, "\n"), start_line, 0)

(***************************************************************************)
(* UnsafeTransferDetector                                                  *)
(***************************************************************************)

\* _is_in_sol_macro(node): some node from this one upwards is a
\* macro_invocation whose text contains "sol!"
RECURSIVE IsInSolMacro(_)
IsInSolMacro(n) ==
    IF n = 0 THEN FALSE
    ELSE IF tree[n].type = "macro_invocation" /\ Contains(NodeText(n), "sol!") THEN TRUE
    ELSE IsInSolMacro(tree[n].parent)

\* _extract_solidity_function_name
ExtractSolidityFunctionName(function_text) ==
    LET start_idx == Find(function_text, "function ", 0) + 9
        end_idx == Find(function_text, "(", start_idx)
    IN IF Contains(function_text, "function ") /\ start_idx < end_idx
       THEN Strip(SubSeq(function_text, start_idx + 1, end_idx))
       ELSE ""

\* _get_function_name
GetFunctionName(n) ==
    LET function_text == NodeText(n)
    IN IF FirstIdentifier(tree[n].children) # ""
       THEN FirstIdentifier(tree[n].children)
       ELSE IF Contains(function_text, "function ")
            THEN ExtractSolidityFunctionName(function_text)
       ELSE ""

Last(q) == q[Len(q)]

RECURSIVE SelectAddressNames(_)
\* the loop over params_text.split(",") of _extract_address_params
SelectAddressNames(ps) ==
    IF ps = <<>> THEN <<>>
    ELSE (IF Contains(Strip(Head(ps)), "address")
          THEN <<Strip(Last(Words(Strip(Head(ps)))))>> ELSE <<>>)
         \o SelectAddressNames(Tail(ps))

RECURSIVE SelectAddressLines(_)
\* the loop over the lines of a Rust function of _extract_address_params
SelectAddressLines(ls) ==
    IF ls = <<>> THEN <<>>
    ELSE (IF Contains(Head(ls), ":") /\ Contains(Head(ls), "Address")
          THEN <<Strip(Split(Head(ls), ":")[1])>> ELSE <<>>)
         \o SelectAddressLines(Tail(ls))

\* _extract_address_params
ExtractAddressParams(function_text) ==
    LET params_start == Find(function_text, "(", 0)
        params_end == Find(function_text, ")", 0)
    IN IF Contains(function_text, "function ") /\ Contains(function_text, "(")
       THEN IF params_start > 0 /\ params_end > params_start
            THEN SelectAddressNames(
                     Split(SubSeq(function_text, params_start + 2, params_end), ","))
            ELSE <<>>
       ELSE IF Contains(function_text, "fn ") /\ Contains(function_text, "Address")
            THEN SelectAddressLines(Split(function_text, "\n"))
       ELSE <<>>

RECURSIVE ParameterTexts(_)
ParameterTexts(cs) ==
    IF cs = <<>> THEN <<>>
    ELSE (IF tree[Head(cs)].type = "parameter" THEN <<NodeText(Head(cs))>> ELSE <<>>)
         \o ParameterTexts(Tail(cs))

RECURSIVE ParametersOf(_)
ParametersOf(cs) ==
    IF cs = <<>> THEN <<>>
    ELSE (IF tree[Head(cs)].type = "parameters"
          THEN ParameterTexts(tree[Head(cs)].children) ELSE <<>>)
         \o ParametersOf(Tail(cs))

\* _extract_function_parameters
ExtractFunctionParameters(n) == ParametersOf(tree[n].children)

\* param.split(":")[-1].strip() if ":" in param else param
ParamName(param) ==
    IF Contains(param, ":") THEN Strip(Last(Split(param, ":"))) ELSE param

\* _are_params_used_in_transfers
AreParamsUsedInTransfers(function_text, address_params) ==
    \E k \in 1..Len(address_params) :
        LET param_name == ParamName(address_params[k])
        IN ContainsAny(function_text,
              <<".transfer(" \o param_name,
                ".transfer(" \o param_name \o ",",
                ".transferFrom(" \o param_name,
                ".transferFrom(" \o param_name \o ",",
                "transfer(address,uint256).*" \o param_name,
                "transferFrom(address,address,uint256).*" \o param_name>>)

ValidationPatterns ==
    <<"require", "assert", "revert", "== Address::ZERO", "!= Address::ZERO",
      "Address::zero()", "is_zero()", "== 0x0", "!= 0x0">>

\* _has_address_validation
HasAddressValidation(function_text, address_params) ==
    \A k \in 1..Len(address_params) :
        LET param_name == ParamName(address_params[k])
        IN \E q \in 1..Len(ValidationPatterns) :
              \/ Contains(function_text, param_name \o " " \o ValidationPatterns[q])
              \/ Contains(function_text, ValidationPatterns[q] \o "(" \o param_name)

\* the first line of a text that contains "function ", cut before its "{"
RECURSIVE FirstFunctionLine(_)
FirstFunctionLine(ls) ==
    IF ~Contains(Head(ls), "function ") THEN FirstFunctionLine(Tail(ls))
    ELSE IF Find(Head(ls), "{", 0) > 0
         THEN Strip(SubSeq(Head(ls), 1, Find(Head(ls), "{", 0)))
    ELSE Strip(Head(ls))

\* _get_function_signature(node, code): function_text is bound only for a node
\* inside a sol! macro; for any other node the test on it raises
\* UnboundLocalError
GetFunctionSignature(n) ==
    LET function_text == NodeText(n)
    IN IF ~IsInSolMacro(n) THEN [raised |-> TRUE, value |-> ""]
       ELSE IF Contains(function_text, "function ")
            THEN [raised |-> FALSE,
                  value |-> FirstFunctionLine(Split(function_text, "\n"))]
       ELSE IF GetFunctionName(n) # ""
            THEN [raised |-> FALSE, value |-> "fn " \o GetFunctionName(n) \o "(...)"]
       ELSE [raised |-> FALSE, value |-> Split(function_text, "\n")[1]]

RECURSIVE SelectAddressTyped(_)
\* [p for p in params if "Address" in p or "address" in p]
SelectAddressTyped(ps) ==
    IF ps = <<>> THEN <<>>
    ELSE (IF Contains(Head(ps), "Address") \/ Contains(Head(ps), "address")
          THEN <<Head(ps)>> ELSE <<>>)
         \o SelectAddressTyped(Tail(ps))

SkippedKeywords == <<"constructor", "deploy", "main", "internal">>

\* _check_function_for_unsafe_transfers: what it appends, and whether it raises
CheckFunctionForUnsafeTransfers(n) ==
    LET function_text == NodeText(n)
        func_name == GetFunctionName(n)
        address_params == SelectAddressTyped(ExtractFunctionParameters(n))
        lines == LineForNode(n)
        sig == GetFunctionSignature(n)
    IN IF ContainsAny(Lower(func_name), SkippedKeywords)
       THEN [raised |-> FALSE, issues |-> <<>>]
       ELSE IF ~Contains(function_text, "transfer") /\ ~Contains(function_text, ".call(")
            THEN [raised |-> FALSE, issues |-> <<>>]
       ELSE IF /\ address_params # <<>>
               /\ AreParamsUsedInTransfers(function_text, address_params)
               /\ ~HasAddressValidation(function_text, address_params)
            THEN IF sig.raised THEN [raised |-> TRUE, issues |-> <<>>]
                 ELSE [raised |-> FALSE,
                       issues |->
                         <<Issue("unsafe_transfer", "Medium",
                             "Function '" \o func_name
                                 \o "' performs transfers to potentially unvalidated address parameters.",
                             lines[1], lines[2], sig.value,
                             "Validate address parameters before using them in transfer operations.")>>]
       ELSE [raised |-> FALSE, issues |-> <<>>]

\* what _find_unsafe_transfers does at node n itself
FindUnsafeTransfersAt(n) ==
    LET node_text == NodeText(n)
        addresses == ExtractAddressParams(node_text)
        lines == LineForNode(n)
        sig == GetFunctionSignature(n)
    IN IF tree[n].type \in {"function_item", "function_definition"}
       THEN CheckFunctionForUnsafeTransfers(n)
       ELSE IF /\ IsInSolMacro(n)
               /\ Contains(node_text, "function ") /\ Contains(node_text, "transfer")
               /\ addresses # <<>> /\ ~HasAddressValidation(node_text, addresses)
            THEN IF sig.raised THEN [raised |-> TRUE, issues |-> <<>>]
                 ELSE [raised |-> FALSE,
                       issues |->
                         <<Issue("unsafe_transfer", "Medium",
                             "Function '" \o ExtractSolidityFunctionName(node_text)
                                 \o "' contains transfers to potentially unvalidated addresses.",
                             lines[1], lines[2], sig.value,
                             "Validate address parameters before using them in transfer operations.")>>]
       ELSE [raised |-> FALSE, issues |-> <<>>]

(***************************************************************************)
(* detect as a state machine: one step per node visited, per line scanned  *)
(* and per section handled.                                                *)
(***************************************************************************)

Detectors == {"unchecked", "unsafe"}

Init ==
    /\ input \in Inputs
    /\ det \in Detectors
    /\ code = Render(Source(input))
    /\ tree = Parse(Source(input))
    /\ pc = "tree"
    /\ stack = <<1>>
    /\ issues = <<>>
    /\ raised = FALSE
    /\ scan = ExtractStart("")
    /\ sec = 1
    /\ run = 1
    /\ first = [issues |-> <<>>, raised |-> FALSE]

\* UncheckedTransferDetector._find_unchecked_transfers on the next node: the
\* rules at the node, then its children
VisitUnchecked ==
    /\ det = "unchecked" /\ pc = "tree" /\ stack # <<>>
    /\ issues' = issues \o FindUncheckedTransfersAt(Head(stack))
    /\ stack' = tree[Head(stack)].children \o Tail(stack)
    /\ UNCHANGED <<input, code, tree, det, pc, raised, scan, sec, run, first>>

\* a mutant: the list of sections outlives the call, as an attribute of the
\* detector would
BeginEmbeddedKeepsSections ==
    /\ det = "unchecked" /\ pc = "tree" /\ stack = <<>>
    /\ pc' = "extract"
    /\ scan' = [ExtractStart(code) EXCEPT !.sections = scan.sections]
    /\ sec' = 1
    /\ UNCHANGED <<input, code, tree, det, stack, issues, raised, run, first>>

\* the traversal is over: _check_solidity_unchecked_transfers starts
\* _extract_sol_macro_sections
BeginEmbedded ==
    /\ det = "unchecked" /\ pc = "tree" /\ stack = <<>>
    /\ pc' = "extract"
    /\ scan' = ExtractStart(code)
    /\ sec' = 1
    /\ UNCHANGED <<input, code, tree, det, stack, issues, raised, run, first>>

\* one line of _extract_sol_macro_sections
ExtractStep ==
    /\ pc = "extract" /\ scan.i < Len(scan.lines)
    /\ scan' = ExtractLine(scan)
    /\ UNCHANGED <<input, code, tree, det, pc, stack, issues, raised, sec, run, first>>

\* _extract_sol_macro_sections returns its sections
EndExtract ==
    /\ pc = "extract" /\ scan.i = Len(scan.lines)
    /\ pc' = "sections"
    /\ UNCHANGED <<input, code, tree, det, stack, issues, raised, scan, sec, run, first>>

\* a mutant: the deny-list scan of a section runs before the general scan
ScanSectionDenyListFirst ==
    /\ pc = "sections" /\ sec <= Len(scan.sections)
    /\ issues' = issues
            \o FindPredefinedUnsafeTransfers(scan.sections[sec].code,
                                             scan.sections[sec].start_line)
            \o FindSolidityUncheckedTransfers(scan.sections[sec].code,
                                              scan.sections[sec].start_line)
    /\ sec' = sec + 1
    /\ UNCHANGED <<input, code, tree, det, pc, stack, raised, scan, run, first>>

\* the two scans of the next section
ScanSection ==
    /\ pc = "sections" /\ sec <= Len(scan.sections)
    /\ issues' = issues
            \o FindSolidityUncheckedTransfers(scan.sections[sec].code,
                                              scan.sections[sec].start_line)
            \o FindPredefinedUnsafeTransfers(scan.sections[sec].code,
                                             scan.sections[sec].start_line)
    /\ sec' = sec + 1
    /\ UNCHANGED <<input, code, tree, det, pc, stack, raised, scan, run, first>>

\* UncheckedTransferDetector.detect returns
ReturnUnchecked ==
    /\ pc = "sections" /\ sec > Len(scan.sections)
    /\ pc' = "done"
    /\ UNCHANGED <<input, code, tree, det, stack, issues, raised, scan, sec, run, first>>

\* UnsafeTransferDetector._find_unsafe_transfers on the next node; an
\* exception ends detect
VisitUnsafe ==
    /\ det = "unsafe" /\ pc = "tree" /\ stack # <<>>
    /\ LET r == FindUnsafeTransfersAt(Head(stack))
       IN IF r.raised
          THEN /\ raised' = TRUE
               /\ pc' = "done"
               /\ stack' = <<>>
               /\ issues' = issues
          ELSE /\ issues' = issues \o r.issues
               /\ stack' = tree[Head(stack)].children \o Tail(stack)
               /\ UNCHANGED <<pc, raised>>
    /\ UNCHANGED <<input, code, tree, det, scan, sec, run, first>>

\* UnsafeTransferDetector.detect returns
ReturnUnsafe ==
    /\ det = "unsafe" /\ pc = "tree" /\ stack = <<>>
    /\ pc' = "done"
    /\ UNCHANGED <<input, code, tree, det, stack, issues, raised, scan, sec, run, first>>

\* the caller runs detect once more on the same tree and text, with a fresh sink
Rerun ==
    /\ pc = "done" /\ run = 1
    /\ first' = [issues |-> issues, raised |-> raised]
    /\ run' = 2
    /\ issues' = <<>>
    /\ raised' = FALSE
    /\ pc' = "tree"
    /\ stack' = <<1>>
    /\ UNCHANGED <<input, code, tree, det, scan, sec>>

Next ==
    \/ VisitUnchecked
    \/ BeginEmbedded
    \/ ExtractStep
    \/ EndExtract
    \/ ScanSection
    \/ ReturnUnchecked
    \/ VisitUnsafe
    \/ ReturnUnsafe
    \/ Rerun

Spec == Init /\ [][Next]_vars

(***************************************************************************)
(* Properties.  They are stated over the input description and the sink,   *)
(* not over the operators of the detectors.                                *)
(***************************************************************************)

\* the line of the Rust function that holds the transfer statement
CallLine == IF input.marker THEN 3 ELSE 2

\* the text of the transfer call of the forms whose recipient is the parameter
TransferText == "token.transfer(to, amt)"

Range(q) == {q[k] : k \in 1..Len(q)}

\* the issues whose line range is the line range of the transfer call
IssuesAtCall ==
    {k \in 1..Len(issues) :
        issues[k].line_start = CallLine /\ issues[k].line_end = CallLine}

\* the issues whose line range covers the transfer call
IssuesCoveringCall ==
    {k \in 1..Len(issues) :
        issues[k].line_start <= CallLine /\ CallLine <= issues[k].line_end}

UncheckedDone == det = "unchecked" /\ pc = "done"

UnsafeDone == det = "unsafe" /\ pc = "done"

\* C1: a transfer bound with `let _ =` gets exactly one unchecked_transfer
\* issue of severity High on the line range of the call, with or without the
\* token-interface marker and with or without an enclosing call expression.
C1_DiscardReportedOnce ==
    (UncheckedDone /\ input.form \in {"discard", "chain"}) =>
        /\ Cardinality(IssuesAtCall) = 1
        /\ \A k \in IssuesAtCall :
              issues[k].issue_type = "unchecked_transfer" /\ issues[k].severity = "High"

\* C2: a transfer call that is the condition of an if_expression is never
\* reported, whatever follows it in the function.
C2_IfConditionNotReported ==
    (det = "unchecked" /\ input.form = "ifcond") => IssuesAtCall = {}

C2_Witness ==
    /\ UncheckedDone
    /\ input.form = "ifcond"
    /\ input.marker
    /\ "ret" \in Range(input.follow)

\* C3: a transfer bound to a name is not reported when the function has a live
\* guard on the name, no commented-out guard on it and no return of it.
C3_GuardedBindingNotReported ==
    (/\ det = "unchecked"
     /\ input.form = "named"
     /\ "guard" \in Range(input.follow)
     /\ "cguard" \notin Range(input.follow)
     /\ "ret" \notin Range(input.follow)) => IssuesAtCall = {}

\* C4: a match on a transfer gets exactly one High issue, that of the match,
\* when the error arm is empty, and no issue when the error arm returns; the
\* call inside the match is not reported as an unchecked call.
C4_MatchOnTransfer ==
    UncheckedDone =>
        /\ input.form = "matchE" =>
              /\ Len(issues) = 1
              /\ issues[1].severity = "High"
              /\ issues[1].code_snippet # TransferText
        /\ input.form = "matchR" => issues = <<>>

\* C5: a function that passes its unguarded address parameter as the recipient
\* of a transfer gets exactly one unsafe_transfer issue of severity Medium
\* whose line range covers the call.
C5_UnvalidatedRecipientReported ==
    (/\ UnsafeDone
     /\ input.fname = "withdraw"
     /\ input.form \in {"bare", "discard", "named", "ifcond"}
     /\ "require" \notin Range(input.follow)) =>
        /\ Cardinality(IssuesCoveringCall) = 1
        /\ \A k \in IssuesCoveringCall :
              issues[k].issue_type = "unsafe_transfer" /\ issues[k].severity = "Medium"

\* the lines of a block between its marker line and its closing line
BlockItemLines(b) == Tail(Split(RenderAll(SolItems(b.items)), "\n"))

RECURSIVE LinesText(_)
LinesText(ls) == IF ls = <<>> THEN "" ELSE Head(ls) \o "\n" \o LinesText(Tail(ls))

\* the 1-based line of the marker of block k
MarkerLine(k) ==
    Count(Render(Source([input EXCEPT !.blocks = SubSeq(@, 1, k - 1)])), "\n") + 2

\* the 1-based lines of the source that hold line l of the items of block k
SenderLinesOfBlock(k) ==
    {MarkerLine(k) + l : l \in {l \in 1..Len(BlockItemLines(input.blocks[k])) :
                                  Contains(BlockItemLines(input.blocks[k])[l], "(msg.sender,")}}

\* the transfer calls whose recipient is the sender: the line of each, and the
\* name of the function it is in
SenderCalls ==
    (IF input.form = "sender"
     THEN {[line |-> CallLine, function |-> input.fname]} ELSE {})
    \cup
    {[line |-> l, function |-> "pay"] :
        l \in UNION {SenderLinesOfBlock(k) : k \in 1..Len(input.blocks)}}

\* C6: a transfer whose recipient is the sender is never reported by the
\* unsafe-transfer detector, in a Rust function or in a function of a sol!
\* block, whatever address parameters the function declares and whether or
\* not they are validated: no issue names its function and covers its line.
C6_SenderRecipientNotReported ==
    det = "unsafe" =>
        \A k \in 1..Len(issues) : \A c \in SenderCalls :
            ~(/\ issues[k].line_start <= c.line /\ c.line <= issues[k].line_end
              /\ Contains(issues[k].description, "'" \o c.function \o "'"))

\* C7: a second run of detect on the same tree and text, with a fresh sink,
\* ends with the same issues in the same order, and the same outcome.
C7_SecondRunIdentical ==
    (pc = "done" /\ run = 2) => (issues = first.issues /\ raised = first.raised)

C7_Witness == pc = "done" /\ run = 2 /\ Len(issues) >= 3

ExtractionOver == det = "unchecked" /\ pc \in {"sections", "done"}

SingleClosedBlock == Len(input.blocks) = 1 /\ input.blocks[1].closed

\* C8: for a block with a marker line and its matching closing line, the
\* extraction gives one section; its text is the lines between the two (with
\* or without the closing line) and its start_line is the line number of the
\* first line after the marker.
C8_SectionReproducesBlock ==
    (ExtractionOver /\ SingleClosedBlock) =>
        /\ Len(scan.sections) = 1
        /\ scan.sections[1].code \in
              {LinesText(BlockItemLines(input.blocks[1])),
               LinesText(BlockItemLines(input.blocks[1])) \o "}\n"}
        /\ scan.sections[1].start_line = MarkerLine(1) + 1

\* C9: a closing brace of a construct nested in the block does not end the
\* section: the section runs to the closing line of the block.
C9_NestedCloseKeepsSection ==
    (/\ ExtractionOver
     /\ SingleClosedBlock
     /\ Range(input.blocks[1].items) \cap {"iface", "fn", "pay"} # {}) =>
        /\ Len(scan.sections) = 1
        /\ EndsWith(scan.sections[1].code,
                    LinesText(BlockItemLines(input.blocks[1])) \o "}\n")

\* the last block has a marker and no later line that ends in a closing brace
LastBlockUnterminated ==
    /\ input.blocks # <<>>
    /\ ~Last(input.blocks).closed
    /\ Range(Last(input.blocks).items) \subseteq {"decl"}

\* C10: a marker with no later closing line gives no section, no issue and
\* no error; the issue of the tree pass and the issues of the earlier block
\* are there as without it.
C10_UnterminatedBlockSkipped ==
    (det = "unchecked" /\ LastBlockUnterminated) =>
        /\ ~raised
        /\ pc \in {"sections", "done"} => Len(scan.sections) = Len(input.blocks) - 1
        /\ \A k \in 1..Len(issues) : issues[k].line_end < MarkerLine(Len(input.blocks))
        /\ pc = "done" => Len(issues) = (IF Len(input.blocks) = 1 THEN 1 ELSE 3)

C10_Witness ==
    /\ UncheckedDone
    /\ LastBlockUnterminated
    /\ Len(input.blocks) = 2
    /\ Last(input.blocks).items # <<>>

\* C11: a transfer call under a negation or a comparison that is the condition
\* of an if (`if !token.transfer(to, amt)`, `if token.transfer(to, amt) ==
\* false`) is classified as checked: no issue on its line range.
C11_ConditionOperandNotReported ==
    (det = "unchecked" /\ input.form \in {"ifnot", "ifeq"}) => IssuesAtCall = {}

\* the positions of a kind of statement among the follow-up statements
Positions(kind) == {k \in 1..Len(input.follow) : input.follow[k] = kind}

\* C12: a transfer bound to a name, guarded by `if !<name>` and returned on a
\* later line, after the guard, is classified as checked: no issue on its
\* line range.
C12_ReturnAfterGuardNotReported ==
    (/\ det = "unchecked"
     /\ input.form = "named"
     /\ Positions("ret") # {}
     /\ Positions("guard") # {}
     /\ \A r \in Positions("ret") : \E g \in Positions("guard") : g < r
     /\ Positions("cguard") = {}) => IssuesAtCall = {}

\* the issues of the general scan of a section
GeneralIssues ==
    {k \in 1..Len(issues) :
        Contains(issues[k].description, "contains unchecked transfer call")}

\* the issues of the deny-list scan of a section
DenyListIssues ==
    {k \in 1..Len(issues) : Contains(issues[k].description, "uses unchecked transfer call")}

OneFunctionBlock == SingleClosedBlock /\ Len(input.blocks[1].items) = 1

\* C13: a function of a section whose body makes a low-level transfer call
\* gets one High issue from the general scan when the body lacks the
\* declaration of the success boolean or the guard on it, whatever the name of
\* the function, and none when the body has both.
C13_LowLevelCallReportedUnlessGuarded ==
    (/\ UncheckedDone
     /\ OneFunctionBlock
     /\ input.blocks[1].items[1] \in {"fn", "sweep", "unguarded", "checked"}) =>
        /\ Cardinality(GeneralIssues) =
              (IF input.blocks[1].items[1] = "checked" THEN 0 ELSE 1)
        /\ \A k \in GeneralIssues : issues[k].severity = "High"

\* C14: the deny-list scan reports a deny-listed function only for a low-level
\* transfer call inside the function's own body: a function on the list whose
\* body makes no such call is not reported, whatever function follows it.
C14_DenyListStaysInBody ==
    (/\ UncheckedDone
     /\ SingleClosedBlock
     /\ input.blocks[1].items # <<>>
     /\ input.blocks[1].items[1] = "quiet") =>
        \A k \in DenyListIssues :
            ~Contains(issues[k].description, "'unsafeTransferERC20'")

\* the name of the function an item declares
SolFunctionName(kind) ==
    CASE kind = "sweep"     -> "sweep"
      [] kind = "checked"   -> "transferChecked"
      [] kind = "unguarded" -> "transferLogged"

\* the Medium unsafe_transfer issues that name a function
UnsafeIssuesNaming(name) ==
    {k \in 1..Len(issues) :
        /\ issues[k].issue_type = "unsafe_transfer"
        /\ issues[k].severity = "Medium"
        /\ Contains(issues[k].description, "'" \o name \o "'")}

\* C15: each function of a sol! block that passes an address parameter to a
\* transfer-shaped call and validates none of its parameters gets exactly one
\* Medium unsafe_transfer issue: one per function, not one per syntax node
\* around it.
C15_OneIssuePerEmbeddedFunction ==
    (/\ UnsafeDone
     /\ SingleClosedBlock
     /\ input.blocks[1].items # <<>>
     /\ Range(input.blocks[1].items) \subseteq {"sweep", "checked", "unguarded"}) =>
        \A kind \in Range(input.blocks[1].items) :
            Cardinality(UnsafeIssuesNaming(SolFunctionName(kind)))
                = Cardinality({j \in 1..Len(input.blocks[1].items) :
                                  input.blocks[1].items[j] = kind})

\* C16: the recipient of transferFrom is its second argument: an unvalidated
\* address parameter passed there is flagged, one passed only as the first
\* argument, the source account, is not.
C16_TransferFromRecipientIndex ==
    (/\ UnsafeDone
     /\ input.fname = "withdraw"
     /\ "require" \notin Range(input.follow)) =>
        /\ input.form = "tfrom" =>
              \E k \in IssuesCoveringCall :
                  issues[k].issue_type = "unsafe_transfer" /\ issues[k].severity = "Medium"
        /\ input.form = "tfromsrc" => IssuesCoveringCall = {}

\* the issues of the embedded-block pass, and those of the tree pass
EmbeddedIssues == GeneralIssues \cup DenyListIssues

TreeIssues == (1..Len(issues)) \ EmbeddedIssues

\* the sol! block an embedded issue lies in: the markers at or above its line
BlockOfIssue(k) ==
    Cardinality({b \in 1..Len(input.blocks) : MarkerLine(b) <= issues[k].line_start})

\* issue k, appended before issue l, is not out of order
InDetectionOrder(k, l) ==
    /\ (k \in TreeIssues /\ l \in TreeIssues) =>
          \/ issues[k].line_start < issues[l].line_start
          \/ /\ issues[k].line_start = issues[l].line_start
             /\ Contains(issues[k].code_snippet, issues[l].code_snippet)
    /\ ~(k \in EmbeddedIssues /\ l \in TreeIssues)
    /\ (k \in EmbeddedIssues /\ l \in EmbeddedIssues) =>
          /\ BlockOfIssue(k) <= BlockOfIssue(l)
          /\ BlockOfIssue(k) = BlockOfIssue(l) =>
                ~(k \in DenyListIssues /\ l \in GeneralIssues)

IsPrefix(s, t) == Len(s) <= Len(t) /\ SubSeq(t, 1, Len(s)) = s

\* C17: within a run the unchecked-transfer detector only appends to the
\* sink, and its issues are in detection order: tree-pass issues in pre-order
\* of their nodes (earlier statements first, an enclosing call before the call
\* inside it), all of them before the embedded-block issues; the embedded
\* issues by section in source order, and within a section those of the
\* general scan before those of the deny-list scan.
C17_IssuesInDetectionOrder ==
    /\ [](det = "unchecked" =>
             \A k, l \in 1..Len(issues) : k < l => InDetectionOrder(k, l))
    /\ [][(det = "unchecked" /\ run' = run) => IsPrefix(issues, issues')]_vars

C17_Witness ==
    /\ UncheckedDone
    /\ TreeIssues # {}
    /\ Cardinality(GeneralIssues) = 2
    /\ Cardinality(DenyListIssues) = 2
    /\ \E k \in EmbeddedIssues : BlockOfIssue(k) = 2

\* C18: every issue of the embedded-block pass is on one line, the 1-based
\* line of the source whose stripped text is the issue's snippet.
C18_EmbeddedIssueLineIsSnippetLine ==
    det = "unchecked" =>
        \A k \in EmbeddedIssues :
            /\ issues[k].line_start = issues[k].line_end
            /\ issues[k].line_start \in 1..Len(Split(code, "\n"))
            /\ Strip(Split(code, "\n")[issues[k].line_start]) = issues[k].code_snippet

\* C19: the unsafe-transfer detector never raises: a run over the tree of any
\* source ends without an exception.
C19_UnsafeDetectNeverRaises == det = "unsafe" => ~raised

====
